---- MODULE Spec2Model ----
(***************************************************************************)
(* Model of apt_mirror_updater/eol.py: the embedded KNOWN_EOL_DATES table  *)
(* and gather_eol_dates(context, directory), which builds a table          *)
(* distributor -> series -> EOL timestamp from the CSV files of a          *)
(* directory read through an execution context.                            *)
(*                                                                         *)
(* Text is modelled as a sequence of one-character strings, so that        *)
(* os.path.splitext, str.lower, os.path.join and the date parser work on   *)
(* characters as the library functions do.                                 *)
(***************************************************************************)
EXTENDS Integers, Sequences, FiniteSets, TLC

VARIABLES
    context,          \* what the execution context answers: directories and files
    utcoffset,        \* the local time zone of the process, seconds east of UTC
    KNOWN_EOL_DATES,  \* the module-level dictionary (eol.py:58)
    todo,             \* how many calls of gather_eol_dates the caller still makes
    pc,               \* position inside gather_eol_dates
    directory,        \* parameter of the running call
    known_dates,      \* local: the table being built
    entries,          \* local: the entries of the listing not yet visited
    entry,            \* local: the loop variable of the outer for
    distributor_id,   \* local
    reader,           \* local: the rows csv.DictReader has not yet produced
    row,              \* local: the loop variable of the inner for
    series,           \* local
    eol,              \* local
    trace,            \* the operations the running call performed on the context
    result,           \* how the last call ended: returned value or raised failure
    history           \* the finished calls, in order: directory and outcome

vars == <<context, utcoffset, KNOWN_EOL_DATES, todo, pc, directory, known_dates,
          entries, entry, distributor_id, reader, row, series, eol, trace,
          result, history>>

locals == <<known_dates, entries, entry, distributor_id, reader, row, series, eol>>

-----------------------------------------------------------------------------
(* Bounds of the model.                                                    *)

\* longest directory listing
MaxEntries == 2

\* most data lines (after the header) in a file whose records are enumerated
MaxLines == 2

\* most calls of gather_eol_dates in one behaviour
MaxCalls == 3

-----------------------------------------------------------------------------
(* Python values.                                                          *)

\* a value that may be None
None == [some |-> FALSE, val |-> <<>>]

Some(v) == [some |-> TRUE, val |-> v]

\* truth value of a str-or-None: None and '' are false
Truthy(x) == x.some /\ x.val # <<>>

\* Python's `a or b`
Or(a, b) == IF Truthy(a) THEN a ELSE b

\* the empty dict
EmptyMap == [k \in {} |-> 0]

\* d[k] = v on a dict modelled as a function
SetItem(d, k, v) == [x \in DOMAIN d \cup {k} |-> IF x = k THEN v ELSE d[x]]

-----------------------------------------------------------------------------
(* Text constants of the program.                                          *)

DISTRO_INFO_DIRECTORY == <<"/", "u", "s", "r", "/", "s", "h", "a", "r", "e", "/", "d", "i", "s", "t", "r", "o", "-", "i", "n", "f", "o">>

CsvExtension == <<".", "c", "s", "v">>

ColSeries == <<"s", "e", "r", "i", "e", "s">>

ColEolServer == <<"e", "o", "l", "-", "s", "e", "r", "v", "e", "r">>

ColEol == <<"e", "o", "l">>

Known_debian_id == <<"d", "e", "b", "i", "a", "n">>

Known_ubuntu_id == <<"u", "b", "u", "n", "t", "u">>

Known_debian ==
    (<<"b", "o">> :> 920934000) @@
    (<<"b", "u", "z", "z">> :> 865461600) @@
    (<<"e", "t", "c", "h">> :> 1266188400) @@
    (<<"h", "a", "m", "m">> :> 952556400) @@
    (<<"j", "e", "s", "s", "i", "e">> :> 1528236000) @@
    (<<"l", "e", "n", "n", "y">> :> 1328482800) @@
    (<<"p", "o", "t", "a", "t", "o">> :> 1059516000) @@
    (<<"r", "e", "x">> :> 896997600) @@
    (<<"s", "a", "r", "g", "e">> :> 1206831600) @@
    (<<"s", "l", "i", "n", "k">> :> 972860400) @@
    (<<"s", "q", "u", "e", "e", "z", "e">> :> 1401487200) @@
    (<<"w", "h", "e", "e", "z", "y">> :> 1461621600) @@
    (<<"w", "o", "o", "d", "y">> :> 1151618400)

Known_ubuntu ==
    (<<"a", "r", "t", "f", "u", "l">> :> 1531951200) @@
    (<<"b", "i", "o", "n", "i", "c">> :> 1682460000) @@
    (<<"b", "r", "e", "e", "z", "y">> :> 1176415200) @@
    (<<"c", "o", "s", "m", "i", "c">> :> 1563400800) @@
    (<<"d", "a", "p", "p", "e", "r">> :> 1306879200) @@
    (<<"e", "d", "g", "y">> :> 1209074400) @@
    (<<"f", "e", "i", "s", "t", "y">> :> 1224367200) @@
    (<<"g", "u", "t", "s", "y">> :> 1240005600) @@
    (<<"h", "a", "r", "d", "y">> :> 1368050400) @@
    (<<"h", "o", "a", "r", "y">> :> 1162249200) @@
    (<<"i", "n", "t", "r", "e", "p", "i", "d">> :> 1272578400) @@
    (<<"j", "a", "u", "n", "t", "y">> :> 1287784800) @@
    (<<"k", "a", "r", "m", "i", "c">> :> 1304028000) @@
    (<<"l", "u", "c", "i", "d">> :> 1430258400) @@
    (<<"m", "a", "v", "e", "r", "i", "c", "k">> :> 1334008800) @@
    (<<"n", "a", "t", "t", "y">> :> 1351375200) @@
    (<<"o", "n", "e", "i", "r", "i", "c">> :> 1368050400) @@
    (<<"p", "r", "e", "c", "i", "s", "e">> :> 1493157600) @@
    (<<"q", "u", "a", "n", "t", "a", "l">> :> 1400191200) @@
    (<<"r", "a", "r", "i", "n", "g">> :> 1390777200) @@
    (<<"s", "a", "u", "c", "y">> :> 1405548000) @@
    (<<"t", "r", "u", "s", "t", "y">> :> 1555452000) @@
    (<<"u", "t", "o", "p", "i", "c">> :> 1437602400) @@
    (<<"v", "i", "v", "i", "d">> :> 1453503600) @@
    (<<"w", "a", "r", "t", "y">> :> 1146348000) @@
    (<<"w", "i", "l", "y">> :> 1469138400) @@
    (<<"x", "e", "n", "i", "a", "l">> :> 1618956000) @@
    (<<"y", "a", "k", "k", "e", "t", "y">> :> 1500501600) @@
    (<<"z", "e", "s", "t", "y">> :> 1515798000)

EmbeddedSnapshot ==
    (Known_debian_id :> Known_debian) @@ (Known_ubuntu_id :> Known_ubuntu)

-----------------------------------------------------------------------------
(* Library functions the program calls, on sequences of characters.        *)

Range(s) == {s[i] : i \in DOMAIN s}

UpperCase == <<"A","B","C","D","E","F","G","H","I","J","K","L","M",
               "N","O","P","Q","R","S","T","U","V","W","X","Y","Z">>

LowerCase == <<"a","b","c","d","e","f","g","h","i","j","k","l","m",
               "n","o","p","q","r","s","t","u","v","w","x","y","z">>

LowerChar(c) ==
    IF c \in Range(UpperCase)
    THEN LowerCase[CHOOSE i \in DOMAIN UpperCase : UpperCase[i] = c]
    ELSE c

\* str.lower()
Lower(s) == [i \in DOMAIN s |-> LowerChar(s[i])]

\* str.rfind(c), 1-based; 0 when c does not occur
RFind(s, c) ==
    LET at == {i \in DOMAIN s : s[i] = c}
    IN  IF at = {} THEN 0 ELSE CHOOSE i \in at : \A j \in at : j <= i

\* str.find(c), 1-based; 0 when c does not occur
Find(s, c) ==
    LET at == {i \in DOMAIN s : s[i] = c}
    IN  IF at = {} THEN 0 ELSE CHOOSE i \in at : \A j \in at : i <= j

\* os.path.splitext (posixpath): the extension starts at the last dot of the
\* last path component, unless only dots precede it in that component
Splitext(p) ==
    LET sepIndex == RFind(p, "/")
        dotIndex == RFind(p, ".")
    IN  IF /\ dotIndex > sepIndex
           /\ \E k \in (sepIndex + 1)..(dotIndex - 1) : p[k] # "."
        THEN <<SubSeq(p, 1, dotIndex - 1), SubSeq(p, dotIndex, Len(p))>>
        ELSE <<p, <<>>>>

\* os.path.join (posixpath) of two components
Join(a, b) ==
    IF b # <<>> /\ b[1] = "/" THEN b
    ELSE IF a = <<>> \/ a[Len(a)] = "/" THEN a \o b
    ELSE a \o <<"/">> \o b

\* str.split(c): the pieces between the occurrences of c, empty ones kept
RECURSIVE SplitOn(_, _)
SplitOn(s, c) ==
    LET i == Find(s, c)
    IN  IF i = 0 THEN <<s>>
        ELSE <<SubSeq(s, 1, i - 1)>> \o SplitOn(SubSeq(s, i + 1, Len(s)), c)

\* str.split(): the pieces between runs of blanks, empty ones dropped
SplitBlank(s) == SelectSeq(SplitOn(s, " "), LAMBDA t : t # <<>>)

Digits == <<"0","1","2","3","4","5","6","7","8","9">>

DigitValue(c) == (CHOOSE i \in DOMAIN Digits : Digits[i] = c) - 1

RECURSIVE DecimalValue(_)
DecimalValue(s) ==
    IF s = <<>> THEN 0
    ELSE 10 * DecimalValue(SubSeq(s, 1, Len(s) - 1)) + DigitValue(s[Len(s)])

\* int(s) of a decimal numeral; anything else is a ValueError
IsNumeral(s) == s # <<>> /\ \A i \in DOMAIN s : s[i] \in Range(Digits)

AllNumerals(parts) == \A i \in DOMAIN parts : IsNumeral(parts[i])

Ints(parts) == [i \in DOMAIN parts |-> DecimalValue(parts[i])]

\* humanfriendly.parse_date: 'YYYY-MM-DD' or 'YYYY-MM-DD HH:MM:SS' to the tuple
\* (year, month, day, hour, minute, second); InvalidDate for anything else
ParseDate(datestring) ==
    LET tokens == SplitBlank(datestring)
        dateText == IF Len(tokens) >= 2 THEN tokens[1] ELSE datestring
        dateParts == SplitOn(dateText, "-")
        timeParts == IF Len(tokens) >= 2 THEN SplitOn(tokens[2], ":") ELSE <<>>
    IN  IF AllNumerals(dateParts) /\ AllNumerals(timeParts)
        THEN [ok |-> TRUE,
              date |-> SubSeq(Ints(dateParts) \o <<1, 1>>, 1, 3)
                       \o SubSeq(Ints(timeParts) \o <<0, 0, 0>>, 1, 3)]
        ELSE [ok |-> FALSE, date |-> <<>>]

\* days from 1970-01-01 to the civil date y-m-d (proleptic Gregorian)
DaysFromCivil(y, m, d) ==
    LET yy  == IF m <= 2 THEN y - 1 ELSE y
        era == yy \div 400
        yoe == yy - era * 400
        mp  == IF m > 2 THEN m - 3 ELSE m + 9
        doy == (153 * mp + 2) \div 5 + d - 1
        doe == yoe * 365 + yoe \div 4 - yoe \div 100 + doy
    IN  era * 146097 + doe - 719468

\* time.mktime of a struct_time tuple (year, month, day, hour, minute, second,
\* wday, yday, isdst): the fields are read as local time; wday, yday and isdst
\* of -1 are ignored / left to the library
Mktime(t) ==
    DaysFromCivil(t[1], t[2], t[3]) * 86400 + t[4] * 3600 + t[5] * 60 + t[6]
    - utcoffset

\* dict.get(key) -> value or None
Get(d, key) == IF key \in DOMAIN d THEN d[key] ELSE None

\* one dictionary of csv.DictReader: the header's names mapped to the fields of
\* the line at the same position (the last position of a repeated name), None
\* (restval) where the line is shorter than the header
DictRow(fieldnames, line) ==
    [k \in Range(fieldnames) |->
        LET j == RFind(fieldnames, k)
        IN  IF j <= Len(line) THEN Some(line[j]) ELSE None]

\* list(csv.DictReader(f)): the first line is the header, empty lines are
\* skipped, every other line becomes a dictionary
DictReader(lines) ==
    IF lines = <<>> THEN <<>>
    ELSE LET body == SelectSeq(Tail(lines), LAMBDA l : l # <<>>)
         IN  [i \in DOMAIN body |-> DictRow(lines[1], body[i])]

-----------------------------------------------------------------------------
(* The execution context (executor.contexts), as far as the program uses   *)
(* it.  A failing operation raises.                                        *)

ContextFailure == "ExternalCommandFailed"

\* context.is_directory(d)
ContextIsDirectory(d) == d \in DOMAIN context.dirs /\ context.dirs[d].isdir

\* context.list_entries(d)
ContextListEntries(d) ==
    IF ContextIsDirectory(d) /\ context.dirs[d].listable
    THEN [ok |-> TRUE, val |-> context.dirs[d].listing]
    ELSE [ok |-> FALSE, val |-> <<>>]

\* context.read_file(p)
ContextReadFile(p) ==
    IF p \in DOMAIN context.files /\ context.files[p].readable
    THEN [ok |-> TRUE, val |-> context.files[p]]
    ELSE [ok |-> FALSE, val |-> [readable |-> FALSE, ascii |-> TRUE, lines |-> <<>>]]

-----------------------------------------------------------------------------
(* gather_eol_dates, statement by statement.                               *)

\* variant: the table starts as the embedded snapshot
FreshTableFromSnapshot == KNOWN_EOL_DATES

\* variant: one table shared by all calls (a mutable default argument)
FreshTableShared == IF result.kind = "returned" THEN result.value ELSE EmptyMap

\* known_dates = {}
FreshTable == EmptyMap

\* variant: the directory test is dropped
EntersLoopAlways(d) == TRUE

\* if context.is_directory(directory):
EntersLoop(d) == ContextIsDirectory(d)

\* variant: plain concatenation instead of os.path.join
FilenameWithoutSeparator(d, e) == d \o e

\* filename = os.path.join(directory, entry)
Filename(d, e) == Join(d, e)

\* basename, extension = os.path.splitext(entry)
Basename(e) == Splitext(e)[1]

Extension(e) == Splitext(e)[2]

\* variant: the extension is compared without lower()
IsCsvCaseSensitive(extension) == extension = CsvExtension

\* if extension.lower() == '.csv':
IsCsv(extension) == Lower(extension) = CsvExtension

\* distributor_id = basename.lower()
DistributorId(basename) == Lower(basename)

\* variant: setdefault, an existing sub-mapping is kept
StartDistributorKeeping(table, id) ==
    IF id \in DOMAIN table THEN table ELSE SetItem(table, id, EmptyMap)

\* known_dates[distributor_id] = {}
StartDistributor(table, id) == SetItem(table, id, EmptyMap)

\* series = row.get('series')
SeriesOf(r) == Get(r, ColSeries)

\* variant: the generic column first
EolOfGenericFirst(r) == Or(Get(r, ColEol), Get(r, ColEolServer))

\* eol = row.get('eol-server') or row.get('eol')
EolOf(r) == Or(Get(r, ColEolServer), Get(r, ColEol))

\* variant: only the EOL field is tested
StoresIfEol(s, e) == Truthy(e)

\* if series and eol:
Stores(s, e) == Truthy(s) /\ Truthy(e)

\* variant: the time of day is zeroed before mktime
TimestampOfDay(text) ==
    Mktime(SubSeq(ParseDate(text).date, 1, 3) \o <<0, 0, 0, -1, -1, -1>>)

\* eol = time.mktime(parse_date(eol) + (-1, -1, -1)); int(eol)
Timestamp(text) == Mktime(ParseDate(text).date \o <<-1, -1, -1>>)

\* variant: a row whose date does not parse is skipped
StoreRowSkippingBadDates(table, id, s, e) ==
    IF Truthy(s) /\ Truthy(e) /\ ParseDate(e.val).ok
    THEN [raised |-> FALSE,
          table |-> [table EXCEPT ![id] =
                        SetItem(@, s.val, Mktime(ParseDate(e.val).date \o <<-1, -1, -1>>))]]
    ELSE [raised |-> FALSE, table |-> table]

\* the body of the inner loop for one row: skip it, raise InvalidDate, or
\* known_dates[distributor_id][series] = int(eol)
StoreRow(table, id, s, e) ==
    IF ~Stores(s, e) THEN [raised |-> FALSE, table |-> table]
    ELSE IF ~ParseDate(e.val).ok THEN [raised |-> TRUE, table |-> table]
    ELSE [raised |-> FALSE,
          table |-> [table EXCEPT ![id] = SetItem(@, s.val, Timestamp(e.val))]]

Op(name, path) == [op |-> name, path |-> path]

Returned(v) == [kind |-> "returned", value |-> v]

Raised(e) == [kind |-> "raised", error |-> e]

NoResult == [kind |-> "none"]

\* the local variables of a frame that is not running
Unbound ==
    /\ entries = <<>>
    /\ entry = <<>>
    /\ distributor_id = <<>>
    /\ reader = <<>>
    /\ row = EmptyMap
    /\ series = None
    /\ eol = None

\* an exception leaves the function: the frame is dropped, the caller gets
\* the exception and no value
Raise(e) ==
    /\ result' = Raised(e)
    /\ pc' = "done"

\* gather_eol_dates(context, d) is called
Call(d) ==
    /\ pc = "idle"
    /\ todo > 0
    /\ todo' = todo - 1
    /\ directory' = d
    /\ known_dates' = FreshTable
    /\ trace' = <<>>
    /\ result' = NoResult
    /\ pc' = "is_directory"
    /\ UNCHANGED <<context, utcoffset, KNOWN_EOL_DATES, entries, entry,
                   distributor_id, reader, row, series, eol, history>>

\* if context.is_directory(directory):
IsDirectory ==
    /\ pc = "is_directory"
    /\ trace' = Append(trace, Op("is_directory", directory))
    /\ pc' = IF EntersLoop(directory) THEN "list_entries" ELSE "return"
    /\ UNCHANGED <<context, utcoffset, KNOWN_EOL_DATES, todo, directory, locals,
                   result, history>>

\* for entry in context.list_entries(directory):   (the call)
ListEntries ==
    /\ pc = "list_entries"
    /\ trace' = Append(trace, Op("list_entries", directory))
    /\ LET listed == ContextListEntries(directory)
       IN  IF listed.ok
           THEN /\ entries' = listed.val
                /\ pc' = "for_entry"
                /\ UNCHANGED result
           ELSE /\ Raise(ContextFailure)
                /\ UNCHANGED entries
    /\ UNCHANGED <<context, utcoffset, KNOWN_EOL_DATES, todo, directory,
                   known_dates, entry, distributor_id, reader, row, series, eol,
                   history>>

\* for entry in ...: one iteration up to the read, lines 131-135
NextEntry ==
    /\ pc = "for_entry"
    /\ entries # <<>>
    /\ entry' = Head(entries)
    /\ entries' = Tail(entries)
    /\ IF IsCsv(Extension(Head(entries)))
       THEN /\ distributor_id' = DistributorId(Basename(Head(entries)))
            /\ known_dates' =
                   StartDistributor(known_dates, DistributorId(Basename(Head(entries))))
            /\ pc' = "read_file"
       ELSE /\ UNCHANGED <<distributor_id, known_dates>>
            /\ pc' = "for_entry"
    /\ UNCHANGED <<context, utcoffset, KNOWN_EOL_DATES, todo, directory, reader,
                   row, series, eol, trace, result, history>>

\* contents = context.read_file(filename); contents.decode('ascii');
\* csv.DictReader(file_like_obj)
ReadFile ==
    /\ pc = "read_file"
    /\ trace' = Append(trace, Op("read_file", Filename(directory, entry)))
    /\ LET contents == ContextReadFile(Filename(directory, entry))
       IN  IF ~contents.ok
           THEN Raise(ContextFailure) /\ UNCHANGED reader
           ELSE IF ~contents.val.ascii
           THEN Raise("UnicodeDecodeError") /\ UNCHANGED reader
           ELSE /\ reader' = DictReader(contents.val.lines)
                /\ pc' = "for_row"
                /\ UNCHANGED result
    /\ UNCHANGED <<context, utcoffset, KNOWN_EOL_DATES, todo, directory,
                   known_dates, entries, entry, distributor_id, row, series, eol,
                   history>>

\* for row in csv.DictReader(...): the next row and lines 139-140, or the end
\* of the file
NextRow ==
    /\ pc = "for_row"
    /\ IF reader = <<>>
       THEN /\ pc' = "for_entry"
            /\ UNCHANGED <<reader, row, series, eol>>
       ELSE /\ row' = Head(reader)
            /\ reader' = Tail(reader)
            /\ series' = SeriesOf(Head(reader))
            /\ eol' = EolOf(Head(reader))
            /\ pc' = "store"
    /\ UNCHANGED <<context, utcoffset, KNOWN_EOL_DATES, todo, directory,
                   known_dates, entries, entry, distributor_id, trace, result,
                   history>>

\* lines 141-143
Store ==
    /\ pc = "store"
    /\ LET out == StoreRow(known_dates, distributor_id, series, eol)
       IN  IF out.raised
           THEN Raise("InvalidDate") /\ UNCHANGED known_dates
           ELSE /\ known_dates' = out.table
                /\ pc' = "for_row"
                /\ UNCHANGED result
    /\ UNCHANGED <<context, utcoffset, KNOWN_EOL_DATES, todo, directory, entries,
                   entry, distributor_id, reader, row, series, eol, trace,
                   history>>

\* return known_dates
Return ==
    /\ \/ pc = "return"
       \/ pc = "for_entry" /\ entries = <<>>
    /\ result' = Returned(known_dates)
    /\ pc' = "done"
    /\ UNCHANGED <<context, utcoffset, KNOWN_EOL_DATES, todo, directory, locals,
                   trace, history>>

\* the caller receives the outcome; the frame is gone
Finish ==
    /\ pc = "done"
    /\ history' = Append(history, [directory |-> directory, result |-> result])
    /\ pc' = "idle"
    /\ known_dates' = EmptyMap
    /\ entries' = <<>>
    /\ entry' = <<>>
    /\ distributor_id' = <<>>
    /\ reader' = <<>>
    /\ row' = EmptyMap
    /\ series' = None
    /\ eol' = None
    /\ UNCHANGED <<context, utcoffset, KNOWN_EOL_DATES, todo, directory, trace,
                   result>>

-----------------------------------------------------------------------------
(* The inputs: directories, listings and files the context may hold.       *)

OtherDirectory == <<"/", "s", "r", "v", "/">>

DirPaths == {DISTRO_INFO_DIRECTORY, OtherDirectory}

DebianCsv == <<"d", "e", "b", "i", "a", "n", ".", "c", "s", "v">>

DebianCsvUpper == <<"D", "e", "b", "i", "a", "n", ".", "C", "S", "V">>

UbuntuCsvMixed == <<"U", "b", "u", "n", "t", "u", ".", "C", "s", "v">>

NotesTxt == <<"n", "o", "t", "e", "s", ".", "t", "x", "t">>

HiddenCsv == <<".", "c", "s", "v">>

Names == {DebianCsv, DebianCsvUpper, UbuntuCsvMixed, NotesTxt, HiddenCsv}

Squeeze == <<"s", "q", "u", "e", "e", "z", "e">>

Jessie == <<"j", "e", "s", "s", "i", "e">>

\* 2014-05-31, the EOL of squeeze
DateA == <<"2", "0", "1", "4", "-", "0", "5", "-", "3", "1">>

\* the same day with a time of day
DateATime == <<"2", "0", "1", "4", "-", "0", "5", "-", "3", "1", " ", "1", "2", ":", "3", "0", ":", "0", "0">>

\* 2018-06-06, the EOL of jessie
DateB == <<"2", "0", "1", "8", "-", "0", "6", "-", "0", "6">>

NotADate == <<"u", "n", "k", "n", "o", "w", "n">>

ColVersion == <<"v", "e", "r", "s", "i", "o", "n">>

Headers ==
    { <<ColSeries, ColEol, ColEolServer>>,
      <<ColSeries, ColEol>>,
      <<ColSeries, ColEolServer>>,
      <<ColVersion, ColEol>> }

\* lines of a CSV file as csv.reader splits them; read against the header
\* <<series, eol, eol-server>> they cover every combination of empty, missing
\* and non-empty fields
LinePool ==
    { <<Squeeze, DateA, DateB>>,
      <<Squeeze, DateA, <<>>>>,
      <<Squeeze, <<>>, DateB>>,
      <<Squeeze, <<>>, <<>>>>,
      <<Jessie, DateATime, <<>>>>,
      <<Jessie, DateB>>,
      <<Jessie>>,
      <<<<>>, DateA, DateB>>,
      <<Squeeze, DateA, NotADate>>,
      <<Squeeze, NotADate, DateA>>,
      <<>>,
      <<Jessie, DateA, DateATime>> }

SeqsUpTo(S, n) == UNION {[1..k -> S] : k \in 0..n}

TextFile(lines) == [readable |-> TRUE, ascii |-> TRUE, lines |-> lines]

\* every file of a header and at most MaxLines lines of the pool, and the
\* empty file
RecordFiles ==
    {TextFile(<<h>> \o body) : h \in Headers, body \in SeqsUpTo(LinePool, MaxLines)}
    \cup {TextFile(<<>>)}

FileA == TextFile(<< <<ColSeries, ColEol>>, <<Squeeze, DateA>>, <<Jessie, DateB>> >>)

FileB == TextFile(<< <<ColSeries, ColEol, ColEolServer>>,
                     <<Squeeze, DateA, <<>>>>, <<Jessie, <<>>, <<>>>>,
                     <<Squeeze, DateB, DateATime>> >>)

FileBadDate == TextFile(<< <<ColSeries, ColEol>>, <<Jessie, DateB>>,
                           <<Squeeze, NotADate>> >>)

FileNotAscii == [readable |-> TRUE, ascii |-> FALSE, lines |-> <<>>]

FileUnreadable == [readable |-> FALSE, ascii |-> TRUE, lines |-> <<>>]

SmallFiles == {FileA, FileB, FileBadDate, FileNotAscii, FileUnreadable}

\* a listing names every entry once
Listings(n) ==
    {l \in SeqsUpTo(Names, n) : \A i, j \in DOMAIN l : l[i] = l[j] => i = j}

Absent == [isdir |-> FALSE, listable |-> FALSE, listing |-> <<>>]

Dir(l) == [isdir |-> TRUE, listable |-> TRUE, listing |-> l]

Unlistable == [isdir |-> TRUE, listable |-> FALSE, listing |-> <<>>]

\* the files of directory d, given the file of each entry
FilesOf(d, f) ==
    [p \in {Join(d, n) : n \in DOMAIN f} |-> f[CHOOSE n \in DOMAIN f : Join(d, n) = p]]

UtcOffsets == {0, 7200}

\* a directory and the files in it, for behaviours with several calls
SmallDirs ==
    { [dir |-> Absent, files |-> EmptyMap],
      [dir |-> Dir(<<DebianCsv>>), files |-> (DebianCsv :> FileA)],
      [dir |-> Dir(<<UbuntuCsvMixed, NotesTxt>>),
       files |-> (UbuntuCsvMixed :> FileB) @@ (NotesTxt :> FileBadDate)],
      [dir |-> Dir(<<DebianCsv, DebianCsvUpper>>),
       files |-> (DebianCsv :> FileA) @@ (DebianCsvUpper :> FileBadDate)] }

InitProgram ==
    /\ KNOWN_EOL_DATES = EmbeddedSnapshot
    /\ pc = "idle"
    /\ directory = DISTRO_INFO_DIRECTORY
    /\ known_dates = EmptyMap
    /\ Unbound
    /\ trace = <<>>
    /\ result = NoResult
    /\ history = <<>>

\* one call on a directory with one CSV file, over all files of RecordFiles
InitRecords ==
    /\ \E f \in RecordFiles :
          context = [dirs |-> (DISTRO_INFO_DIRECTORY :> Dir(<<DebianCsv>>))
                              @@ (OtherDirectory :> Absent),
                     files |-> FilesOf(DISTRO_INFO_DIRECTORY, DebianCsv :> f)]
    /\ utcoffset \in UtcOffsets
    /\ todo = 1

\* one call on a directory over all listings, the files from SmallFiles
InitListings ==
    /\ \E l \in Listings(MaxEntries) : \E f \in [Range(l) -> SmallFiles] :
         \E d \in {Dir(l)} \cup (IF l = <<>> THEN {Absent, Unlistable} ELSE {}) :
          context = [dirs |-> (OtherDirectory :> d)
                              @@ (DISTRO_INFO_DIRECTORY :> Absent),
                     files |-> FilesOf(OtherDirectory, f)]
    /\ utcoffset = 7200
    /\ todo = 1

\* several calls on two directories
InitCalls ==
    /\ \E a, b \in SmallDirs :
          context = [dirs |-> (DISTRO_INFO_DIRECTORY :> a.dir)
                              @@ (OtherDirectory :> b.dir),
                     files |-> FilesOf(DISTRO_INFO_DIRECTORY, a.files)
                               @@ FilesOf(OtherDirectory, b.files)]
    /\ utcoffset = 7200
    /\ todo = MaxCalls

Init == InitProgram /\ (InitRecords \/ InitListings \/ InitCalls)

Next ==
    \/ \E d \in DirPaths : Call(d)
    \/ IsDirectory
    \/ ListEntries
    \/ NextEntry
    \/ ReadFile
    \/ NextRow
    \/ Store
    \/ Return
    \/ Finish

Spec == Init /\ [][Next]_vars

-----------------------------------------------------------------------------
(* Vocabulary of the properties, stated on the inputs and not through the  *)
(* program's own tests.                                                    *)

\* the directory of the running (or last) call, as the context holds it
TheDir == context.dirs[directory]

\* an entry name whose extension is ".csv" in any case: it ends in a dot and
\* the letters c, s, v, and something other than dots precedes that dot
HasCsvExtension(e) ==
    /\ Len(e) > 4
    /\ e[Len(e) - 3] = "."
    /\ e[Len(e) - 2] \in {"c", "C"}
    /\ e[Len(e) - 1] \in {"s", "S"}
    /\ e[Len(e)] \in {"v", "V"}
    /\ \E k \in 1..(Len(e) - 4) : e[k] # "."

\* the lowercased base name of such an entry
IdOfEntry(e) == Lower(SubSeq(e, 1, Len(e) - 4))

\* the recognized entries of the listing, in listing order
Recognized == SelectSeq(TheDir.listing, HasCsvExtension)

\* the path of an entry of the directory
PathOf(e) ==
    directory \o (IF directory[Len(directory)] = "/" THEN <<>> ELSE <<"/">>) \o e

FileOfEntry(e) == context.files[PathOf(e)]

\* the records of a file
RecordsOf(f) == DictReader(f.lines)

HasSeries(r) == ColSeries \in DOMAIN r /\ r[ColSeries].some /\ r[ColSeries].val # <<>>

NonEmptyField(r, col) == col \in DOMAIN r /\ r[col].some /\ r[col].val # <<>>

\* the text of the EOL field the program goes by: the server column where it
\* has a non-empty value, else the generic column
HasEol(r) == NonEmptyField(r, ColEolServer) \/ NonEmptyField(r, ColEol)

EolText(r) ==
    IF NonEmptyField(r, ColEolServer) THEN r[ColEolServer].val ELSE r[ColEol].val

ValidRecord(r) == HasSeries(r) /\ HasEol(r)

\* local midnight of a parsed date, as seconds since the epoch
LocalMidnight(date) == DaysFromCivil(date[1], date[2], date[3]) * 86400 - utcoffset

SecondsIntoDay(date) == date[4] * 3600 + date[5] * 60 + date[6]

\* how a file makes the call fail, "none" if it does not
FileFailure(f) ==
    IF ~f.readable THEN "ExternalCommandFailed"
    ELSE IF ~f.ascii THEN "UnicodeDecodeError"
    ELSE IF \E i \in DOMAIN RecordsOf(f) :
               /\ ValidRecord(RecordsOf(f)[i])
               /\ ~ParseDate(EolText(RecordsOf(f)[i])).ok
    THEN "InvalidDate"
    ELSE "none"

\* the positions in Recognized of the files that make the call fail
Failing == {i \in DOMAIN Recognized : FileFailure(FileOfEntry(Recognized[i])) # "none"}

FirstFailing == CHOOSE i \in Failing : \A j \in Failing : i <= j

\* the sub-mapping a file alone gives: the series of its valid records, each
\* with the timestamp of the last valid record of that series
TableOfFile(f) ==
    LET recs  == RecordsOf(f)
        valid == {i \in DOMAIN recs : ValidRecord(recs[i])}
        last(s) == CHOOSE i \in valid :
                      /\ recs[i][ColSeries].val = s
                      /\ \A j \in valid : recs[j][ColSeries].val = s => j <= i
    IN  [s \in {recs[i][ColSeries].val : i \in valid} |->
            LET date == ParseDate(EolText(recs[last(s)])).date
            IN  LocalMidnight(date) + SecondsIntoDay(date)]

Done == pc = "done"

ReturnedTable == Done /\ result.kind = "returned"

-----------------------------------------------------------------------------
(* The claims.                                                             *)

\* C1: when context.is_directory(directory) is false the call returns the
\* empty mapping, does not raise, and is_directory is the only operation it
\* performed on the context (no list_entries, no read_file).
C1_NotADirectoryGivesEmpty ==
    (Done /\ ~TheDir.isdir) =>
        /\ result = Returned(EmptyMap)
        /\ trace = <<Op("is_directory", directory)>>

\* a call on a path that is not a directory has ended
C1_Witness == Done /\ ~TheDir.isdir /\ Len(trace) = 1

\* live data is unavailable: the directory is absent, or it can be listed and
\* holds no recognized file
LiveDataUnavailable ==
    \/ ~TheDir.isdir
    \/ TheDir.isdir /\ TheDir.listable /\ Recognized = <<>>

\* C2 as stated: when live data is unavailable the table returned equals the
\* embedded snapshot KNOWN_EOL_DATES.
C2_FallsBackToSnapshot ==
    (Done /\ LiveDataUnavailable) => result = Returned(KNOWN_EOL_DATES)

\* C2 amended: when live data is unavailable the call returns the empty table,
\* which is not the embedded snapshot; the snapshot is never substituted.
C2_UnavailableGivesEmpty ==
    (Done /\ LiveDataUnavailable) =>
        /\ result = Returned(EmptyMap)
        /\ result.value # KNOWN_EOL_DATES

\* a call has ended on a directory that exists, has entries, none recognized
C2_Witness ==
    /\ ReturnedTable
    /\ TheDir.isdir
    /\ TheDir.listing # <<>>
    /\ Recognized = <<>>

\* C6: when the directory exists and the call returns, the top-level keys are
\* exactly the lowercased base names of the entries whose extension is ".csv"
\* in any case; other entries give no key, no such entry gives the empty table.
C6_KeysAreRecognizedBaseNames ==
    (ReturnedTable /\ TheDir.isdir) =>
        /\ DOMAIN result.value = {IdOfEntry(Recognized[i]) : i \in DOMAIN Recognized}
        /\ \A id \in DOMAIN result.value : Lower(id) = id
        /\ (Recognized = <<>> => result.value = EmptyMap)

\* Ubuntu.Csv was listed next to an entry with another extension, and the
\* table has the key "ubuntu"
C6_Witness ==
    /\ ReturnedTable
    /\ \E i, j \in DOMAIN TheDir.listing :
          /\ TheDir.listing[i] = UbuntuCsvMixed
          /\ ~HasCsvExtension(TheDir.listing[j])
    /\ Known_ubuntu_id \in DOMAIN result.value

\* the operations a complete call performs on the context, in order
ExpectedOps ==
    <<Op("is_directory", directory)>>
    \o (IF TheDir.isdir THEN <<Op("list_entries", directory)>> ELSE <<>>)
    \o (IF TheDir.isdir /\ TheDir.listable
        THEN [i \in DOMAIN Recognized |-> Op("read_file", PathOf(Recognized[i]))]
        ELSE <<>>)

IsPrefix(s, t) == Len(s) <= Len(t) /\ s = SubSeq(t, 1, Len(s))

\* C9: the operations on the context are is_directory once and first, then
\* list_entries at most once and only for a directory, then read_file once
\* per recognized entry, in listing order, on the joined path, and for no other
\* entry; a call that returns has performed all of them; KNOWN_EOL_DATES is
\* unchanged throughout, failing calls included.
C9_ContextOpsInOrder ==
    /\ IsPrefix(trace, ExpectedOps)
    /\ (pc \notin {"idle", "is_directory"} => trace # <<>>)
    /\ (ReturnedTable => trace = ExpectedOps)
    /\ KNOWN_EOL_DATES = EmbeddedSnapshot

\* a call has ended that read one file and passed over an entry with another
\* extension
C9_Witness ==
    /\ Done
    /\ Len(trace) = 3
    /\ trace[3].op = "read_file"
    /\ \E i \in DOMAIN TheDir.listing : ~HasCsvExtension(TheDir.listing[i])

\* the record in `row` comes from a file whose header has both EOL columns
BothColumns == pc = "store" /\ {ColEol, ColEolServer} \subseteq DOMAIN row

\* C3 as stated: for a record of a file whose header has both an "eol" and an
\* "eol-server" column, the EOL value used is the "eol-server" value, whatever
\* is empty or not.
C3_ServerValueAlwaysUsed == BothColumns => eol = row[ColEolServer]

\* C3 amended: for such a record the EOL value used is the "eol-server" value
\* when that value is non-empty, and the "eol" value when the "eol-server"
\* field is empty or missing from the record.
C3_ServerValueUsedUnlessEmpty ==
    BothColumns =>
        eol = IF NonEmptyField(row, ColEolServer) THEN row[ColEolServer]
              ELSE row[ColEol]

\* a record with two different non-empty EOL values is about to be stored
\* under the server value
C3_Witness ==
    /\ BothColumns
    /\ NonEmptyField(row, ColEol)
    /\ NonEmptyField(row, ColEolServer)
    /\ row[ColEol] # row[ColEolServer]
    /\ eol = row[ColEolServer]

\* the step that stores the timestamp of the record in `row`
StoresRecord ==
    /\ pc = "store"
    /\ pc' = "for_row"
    /\ series.some /\ series.val # <<>>
    /\ eol.some /\ eol.val # <<>>

\* C4 as stated: every timestamp stored is that of local midnight of the
\* parsed date, whatever hour, minute and second the field carries.
C4_StoredAtLocalMidnight ==
    [][StoresRecord =>
          known_dates'[distributor_id][series.val]
              = LocalMidnight(ParseDate(eol.val).date)]_vars

\* C4 amended: the timestamp stored is local midnight of the parsed date plus
\* the parsed hour, minute and second; it is local midnight exactly when the
\* field carries no time of day or 00:00:00.
C4_StoredWithTimeOfDay ==
    [][StoresRecord =>
          LET date == ParseDate(eol.val).date
              stored == known_dates'[distributor_id][series.val]
          IN  /\ stored = LocalMidnight(date) + SecondsIntoDay(date)
              /\ (stored = LocalMidnight(date) <=> SecondsIntoDay(date) = 0)]_vars

\* a timestamp that is not a local midnight is in the table
C4_Witness ==
    /\ pc = "for_row"
    /\ \E id \in DOMAIN known_dates : \E s \in DOMAIN known_dates[id] :
          (known_dates[id][s] + utcoffset) % 86400 # 0

\* recognized files have distinct identifiers and, in each, the records have
\* distinct series values
DistinctIdsAndSeries ==
    /\ \A i, j \in DOMAIN Recognized :
          IdOfEntry(Recognized[i]) = IdOfEntry(Recognized[j]) => i = j
    /\ \A i \in DOMAIN Recognized :
          LET recs == RecordsOf(FileOfEntry(Recognized[i]))
          IN  \A a, b \in DOMAIN recs :
                 (HasSeries(recs[a]) /\ HasSeries(recs[b])
                    /\ recs[a][ColSeries] = recs[b][ColSeries]) => a = b

\* C5: with distinct identifiers and distinct series, the sub-mapping of a
\* distributor has as keys exactly the series of the records of its file in
\* which the series and the chosen EOL field are both non-empty, each with the
\* timestamp of its EOL date; other records are skipped without error.
C5_KeysAreValidRecords ==
    (ReturnedTable /\ TheDir.isdir /\ DistinctIdsAndSeries) =>
        \A i \in DOMAIN Recognized :
            LET recs == RecordsOf(FileOfEntry(Recognized[i]))
                sub  == result.value[IdOfEntry(Recognized[i])]
            IN  /\ DOMAIN sub = {recs[a][ColSeries].val :
                                    a \in {b \in DOMAIN recs : ValidRecord(recs[b])}}
                /\ \A a \in DOMAIN recs :
                      ValidRecord(recs[a]) =>
                          sub[recs[a][ColSeries].val]
                              = LET date == ParseDate(EolText(recs[a])).date
                                IN  LocalMidnight(date) + SecondsIntoDay(date)

\* a call returned on a file with a stored record and a record that has a
\* series but no EOL value
C5_Witness ==
    /\ ReturnedTable
    /\ TheDir.isdir
    /\ DistinctIdsAndSeries
    /\ \E i \in DOMAIN Recognized :
          LET recs == RecordsOf(FileOfEntry(Recognized[i]))
          IN  /\ \E a \in DOMAIN recs : ValidRecord(recs[a])
              /\ \E a \in DOMAIN recs : HasSeries(recs[a]) /\ ~HasEol(recs[a])

\* C7: a date that does not parse in a record with non-empty series and EOL
\* field, a failure of the context while listing or reading, or a file that is
\* not ASCII ends the call with that failure, at the first place it occurs:
\* no table is returned, and no later file is read.
C7_FailurePropagates ==
    (Done /\ TheDir.isdir) =>
        IF ~TheDir.listable
        THEN /\ result = Raised("ExternalCommandFailed")
             /\ trace = <<Op("is_directory", directory), Op("list_entries", directory)>>
        ELSE IF Failing # {}
        THEN /\ result = Raised(FileFailure(FileOfEntry(Recognized[FirstFailing])))
             /\ Len(trace) = 2 + FirstFailing
             /\ trace[Len(trace)] = Op("read_file", PathOf(Recognized[FirstFailing]))
        ELSE result.kind = "returned"

\* a call ended with InvalidDate after it had stored a timestamp, and with
\* entries of the listing left unvisited
C7_Witness ==
    /\ Done
    /\ result = Raised("InvalidDate")
    /\ \E id \in DOMAIN known_dates : known_dates[id] # EmptyMap
    /\ \E i \in DOMAIN entries : HasCsvExtension(entries[i])

\* C8: calls on the same unchanged directory end alike, whatever calls on
\* other directories came in between, and every call starts from an empty
\* table.
C8_SameDirectorySameResult ==
    /\ \A i, j \in DOMAIN history :
          history[i].directory = history[j].directory
              => history[i].result = history[j].result
    /\ \A i \in DOMAIN history :
          (Done /\ history[i].directory = directory) => result = history[i].result
    /\ (pc = "is_directory" => known_dates = EmptyMap)

\* a directory was called again after a call on another one, both returning
\* non-empty tables
C8_Witness ==
    /\ Done
    /\ Len(history) >= 2
    /\ history[1].directory = directory
    /\ history[2].directory # directory
    /\ history[1].result.kind = "returned"
    /\ history[2].result.kind = "returned"
    /\ history[1].result.value # EmptyMap
    /\ history[2].result.value # EmptyMap
    /\ result = history[1].result

\* the last recognized entry of the listing with identifier id
LastEntryOf(id) ==
    Recognized[CHOOSE i \in DOMAIN Recognized :
                  /\ IdOfEntry(Recognized[i]) = id
                  /\ \A j \in DOMAIN Recognized :
                        IdOfEntry(Recognized[j]) = id => j <= i]

\* C10: when several recognized entries lowercase to one identifier, its
\* sub-mapping holds the records of the last of them in listing order only;
\* within a file, the last valid record of a series gives its timestamp.
C10_LastEntryAndLastRecordWin ==
    (ReturnedTable /\ TheDir.isdir) =>
        \A id \in DOMAIN result.value :
            result.value[id] = TableOfFile(FileOfEntry(LastEntryOf(id)))

\* two entries with one identifier were read; a series stored from the first
\* is not in the result, and the second repeats a series
C10_Witness ==
    /\ ReturnedTable
    /\ \E i, j \in DOMAIN Recognized :
          /\ i < j
          /\ IdOfEntry(Recognized[i]) = IdOfEntry(Recognized[j])
          /\ \E s \in DOMAIN TableOfFile(FileOfEntry(Recognized[i])) :
                s \notin DOMAIN result.value[IdOfEntry(Recognized[j])]
          /\ LET recs == RecordsOf(FileOfEntry(Recognized[j]))
             IN  \E a, b \in DOMAIN recs :
                    /\ a < b
                    /\ ValidRecord(recs[a]) /\ ValidRecord(recs[b])
                    /\ recs[a][ColSeries] = recs[b][ColSeries]
                    /\ EolText(recs[a]) # EolText(recs[b])

====
